---- MODULE Spec2Model ----
(***************************************************************************)
(* Model of processing/worker.py: ProcessThread.__init__ and               *)
(* ProcessThread.run, the encode-plan derivation and the CORE -> INTRO ->  *)
(* CONCAT pipeline.                                                        *)
(*                                                                         *)
(* Units.  Python floats are modelled by integers:                         *)
(*   - every time and duration is in milliseconds (1.5 s = 1500);          *)
(*   - a speed factor is a pair <<num, den>> standing for num/den;         *)
(*   - a quantity of bits is carried as bits * 1000 / 1024, so that        *)
(*     bits / (1024 * seconds) of the source is  scaled_bits \div ms.      *)
(***************************************************************************)
EXTENDS Integers, Sequences, FiniteSets, TLC

VARIABLES
    args,              \* the constructor arguments (the caller's JobSpec)
    self,              \* the ProcessThread object's fields
    pc,                \* where run() stands: "ready", "core", "intro", "concat", "done"
    plan,              \* run()'s local planning variables (trim window, bitrate budget)
    core_path,         \* run()'s local core_path        ("None" or a path)
    intro_path,        \* run()'s local intro_path       ("None" or a path)
    concat_path,       \* run()'s local concat_path      ("None" or a path)
    concat_list_path,  \* run()'s local concat_list_path ("None" or a path)
    files,             \* the paths that exist on disk
    procs,             \* the encoder processes started so far, in start order
    progress,          \* the values emitted on progress_update_signal, in order
    finished,          \* the results emitted on finished_signal, in order
    environ,           \* os.environ.get('VIDEO_FORCE_CPU'): "1" or "None"
    now,               \* int(time.time()): the wall clock in whole seconds
    jobs               \* the path choices of executions running side by side

vars == <<args, self, pc, plan, core_path, intro_path, concat_path,
          concat_list_path, files, procs, progress, finished, environ, now, jobs>>

(***************************************************************************)
(* Bounds of the model and the inputs it enumerates.                       *)
(***************************************************************************)
MaxLines == 2          \* output lines read from one encoder process
NumJobs == 2           \* executions of run() side by side in one process
MaxNow == 2            \* seconds the wall clock advances

StartTimes == {0, 1492, 10000}
EndTimes == {4000, 8000, 6000000}
TotalDurations == {0, 9496, 120000}
SpeedFactors == {<<1, 1>>, <<2, 1>>, <<1, 2>>}
QualityLevels == 0..4
IntroStillSecs == {0, 2000}
SrcSizes == {16000, 16000000}       \* os.path.getsize(input_path), bytes
ProbedKbps == {0, 160}              \* _probe_audio_kbps(); 0 stands for None
ExitCodes == {0, 1}                 \* returncode of an encoder process
Resolutions == {"2560x1440"}        \* original_resolution
MobileFormats == {FALSE}            \* is_mobile_format
TeammateOverlays == {FALSE}         \* show_teammates_overlay

\* the inputs of the planning checks: the trim window, the budget and the
\* tempo chain over wider sets
PlanStartTimes == {0, 1492, 10000}
PlanEndTimes == {4000, 40000, 119500}
PlanTotalDurations == {0, 120000}
PlanSpeedFactors == {<<1, 1>>, <<2, 1>>, <<1, 2>>, <<13, 10>>, <<2001, 500>>, <<1, 4>>}

\* the inputs of the layout checks: the four recognized resolutions and one
\* that is not
LayoutResolutions == {"1920x1080", "2560x1440", "3440x1440", "3840x2160", "1280x720"}

\* the inputs of the mapping checks: in_w and in_h of map_hud_box_to_input
InputWidths == {1, 400, 1280, 1920, 2560, 3440, 3840}
InputHeights == {1, 720, 1080, 1440, 2160}

\* the inputs of the encoder-option checks
EncEndTimes == {18000, 40000}
EncQualityLevels == {2, 4}
ForceCpu == {"None", "1"}           \* os.environ.get('VIDEO_FORCE_CPU')

(***************************************************************************)
(* Program constants.                                                      *)
(***************************************************************************)
FADE_DUR == 1500
EPS == 10
AUDIO_KBPS == 128
min_video_kbps == 300
FALLBACK_MB == 52

None == "None"
CORE == "CORE"
INTRO == "INTRO"
CONCAT == "CONCAT"

Max(a, b) == IF a >= b THEN a ELSE b
Min(a, b) == IF a <= b THEN a ELSE b

\* n/d rounded to the nearest integer, a tie to the even one (d > 0): Python's
\* round() and its ".0f" formatting
RoundHalfEven(n, d) ==
    LET q == n \div d
        r == n % d
    IN  IF 2 * r < d THEN q
        ELSE IF 2 * r > d THEN q + 1
        ELSE IF q % 2 = 0 THEN q ELSE q + 1

\* x / speed_factor if speed_factor != 1.0 else x.  A float division rounds its
\* quotient to the nearest value the format holds; here that is a whole
\* millisecond.
DivSpeed(x, sf) == IF sf[1] /= sf[2] THEN RoundHalfEven(x * sf[2], sf[1]) ELSE x

(***************************************************************************)
(* ProcessThread.__init__                                                  *)
(***************************************************************************)
\* mutant of TargetMb: the tiers 1 and 2 trade their targets
TargetMbSwapped(q) ==
    IF q >= 4 THEN 0
    ELSE IF q = 3 THEN 90
    ELSE IF q = 2 THEN 25
    ELSE IF q = 1 THEN 45
    ELSE 15

\* self.target_mb from the quality level; 0 stands for None (tier 4)
TargetMb(q) ==
    IF q >= 4 THEN 0
    ELSE IF q = 3 THEN 90
    ELSE IF q = 2 THEN 45
    ELSE IF q = 1 THEN 25
    ELSE 15

\* self.intro_still_sec: the requested value, zeroed unless intro_from_midpoint
\* is set and the value is positive
InitIntroStillSec(a) ==
    IF (~a.intro_from_midpoint) \/ a.intro_still_sec <= 0 THEN 0 ELSE a.intro_still_sec

Construct(a) ==
    [ start_time              |-> a.start_time,
      end_time                |-> a.end_time,
      duration                |-> a.end_time - a.start_time,
      speed_factor            |-> a.speed_factor,
      quality_level           |-> a.quality_level,
      keep_highest_res        |-> (a.quality_level >= 4),
      target_mb               |-> TargetMb(a.quality_level),
      original_total_duration |-> a.original_total_duration,
      disable_fades           |-> a.disable_fades,
      intro_from_midpoint     |-> a.intro_from_midpoint,
      intro_still_sec         |-> InitIntroStillSec(a),
      original_resolution     |-> a.original_resolution,
      is_mobile_format        |-> a.is_mobile_format,
      show_teammates_overlay  |-> a.show_teammates_overlay,
      duration_corrected      |-> Max(0, DivSpeed(a.end_time - a.start_time, a.speed_factor)) ]

\* the constructor arguments drawn from the given sets
JobSpecsOver(starts, ends, totals, speeds, levels, stills, resolutions, mobiles, teams) ==
    [ start_time              : starts,
      end_time                : ends,
      original_total_duration : totals,
      speed_factor            : speeds,
      quality_level           : levels,
      disable_fades           : BOOLEAN,
      intro_still_sec         : stills,
      intro_from_midpoint     : BOOLEAN,
      original_resolution     : resolutions,
      is_mobile_format        : mobiles,
      show_teammates_overlay  : teams ]

JobSpecs ==
    JobSpecsOver(StartTimes, EndTimes, TotalDurations, SpeedFactors, QualityLevels,
                 IntroStillSecs, Resolutions, MobileFormats, TeammateOverlays)

(***************************************************************************)
(* run(): trim window planning                                             *)
(***************************************************************************)
\* 1. start of the seek window and fade-in duration (fades enabled)
PaddedStart(user_start) ==
    IF user_start < FADE_DUR - EPS
    THEN [in_ss |-> user_start, vfade_in_d |-> 0]
    ELSE [in_ss |-> user_start - FADE_DUR, vfade_in_d |-> FADE_DUR]

\* mutant of PaddedEnd: the fade-out is kept but the window is not extended
PaddedEndUnextended(user_end, total_orig) ==
    IF total_orig > 0 /\ user_end > (total_orig - FADE_DUR + EPS)
    THEN [adj_end |-> total_orig, vfade_out_d |-> 0]
    ELSE [adj_end |-> user_end, vfade_out_d |-> FADE_DUR]

\* 2. end of the seek window and fade-out duration (fades enabled)
PaddedEnd(user_end, total_orig) ==
    IF total_orig > 0 /\ user_end > (total_orig - FADE_DUR + EPS)
    THEN [adj_end |-> total_orig, vfade_out_d |-> 0]
    ELSE [adj_end |-> user_end + FADE_DUR, vfade_out_d |-> FADE_DUR]

\* the trim window before the speed correction
TrimWindow(s) ==
    IF s.disable_fades
    THEN [ in_ss                |-> s.start_time,
           in_t                 |-> s.end_time - s.start_time,
           vfade_in_d           |-> 0,
           vfade_out_d          |-> 0,
           vfade_out_st         |-> 0,
           output_clip_duration |-> s.end_time - s.start_time ]
    ELSE LET st   == PaddedStart(s.start_time)
             en   == PaddedEnd(s.end_time, s.original_total_duration)
             in_t == Max(0, en.adj_end - st.in_ss)
         IN  [ in_ss                |-> st.in_ss,
               in_t                 |-> in_t,
               vfade_in_d           |-> st.vfade_in_d,
               vfade_out_d          |-> en.vfade_out_d,
               vfade_out_st         |-> IF en.vfade_out_d > 0
                                        THEN Max(0, in_t - en.vfade_out_d)
                                        ELSE in_t,
               output_clip_duration |-> in_t ]

\* the output-side durations divided by the speed factor; in_ss and in_t stay
SpeedCorrected(w, sf) ==
    [ w EXCEPT !.output_clip_duration = DivSpeed(w.output_clip_duration, sf),
               !.vfade_in_d           = DivSpeed(w.vfade_in_d, sf),
               !.vfade_out_d          = DivSpeed(w.vfade_out_d, sf),
               !.vfade_out_st         = DivSpeed(w.vfade_out_st, sf) ]

\* intro_len_for_size
IntroLenForSize(s) ==
    IF (~s.disable_fades) /\ s.intro_from_midpoint /\ s.intro_still_sec > 0
    THEN Max(0, s.intro_still_sec)
    ELSE 0

(***************************************************************************)
(* run(): bitrate budget                                                   *)
(***************************************************************************)
\* t_mb * 8 * 1024 * 1024 bits
TargetBitsMb(t_mb) == t_mb * 8 * 1024 * 1000

\* max(1, src_bytes) * 8 bits
TargetBitsSrc(src_bytes) == (Max(1, src_bytes) * 125) \div 16

\* AUDIO_KBPS * 1024 * effective_duration
AudioBits(kbps, effective_duration) == kbps * effective_duration

\* int(video_bits / (1024 * effective_duration)), video_bits >= 0
VideoKbps(video_bits, effective_duration) == video_bits \div effective_duration

\* tier 4, source size known: the bitrate is clamped to the floor
SizeMatchKbps(video_bits, effective_duration) ==
    IF video_bits <= 0
    THEN min_video_kbps
    ELSE Max(min_video_kbps, VideoKbps(video_bits, effective_duration))

\* mutant of TooShort: the check is dropped and the budget goes on negative
TooShortDropped(video_bits) == FALSE

\* "if video_bits < 0": the audio alone exceeds the target size
TooShort(video_bits) == video_bits < 0

\* "if effective_duration <= 0"
ZeroDuration(effective_duration) == effective_duration <= 0

BudgetRec(outcome, mode, kbps_audio, target, eff, kbps_video) ==
    [ outcome               |-> outcome,
      mode                  |-> mode,
      AUDIO_KBPS            |-> kbps_audio,
      target_file_size_bits |-> target,
      audio_bits            |-> AudioBits(kbps_audio, eff),
      video_bits            |-> target - AudioBits(kbps_audio, eff),
      video_bitrate_kbps    |-> kbps_video ]

\* outcome: "ok", "zero" (emit "Selected video duration is zero."),
\* "short" (emit "Video duration is too short ..."), "raise" (ZeroDivisionError)
Budget(s, eff, getsize_ok, src_bytes, probed) ==
    IF s.keep_highest_res
    THEN IF getsize_ok
         THEN LET a      == IF probed /= 0 THEN probed ELSE AUDIO_KBPS
                  target == TargetBitsSrc(src_bytes)
                  vbits  == target - AudioBits(a, eff)
              IN  IF ZeroDuration(eff)
                  THEN BudgetRec("zero", "size_match", a, target, eff, 0)
                  ELSE BudgetRec("ok", "size_match", a, target, eff,
                                 SizeMatchKbps(vbits, eff))
         ELSE LET t_mb   == IF s.target_mb /= 0 THEN s.target_mb ELSE FALLBACK_MB
                  target == TargetBitsMb(t_mb)
                  vbits  == target - AudioBits(AUDIO_KBPS, eff)
              IN  IF TooShort(vbits)
                  THEN BudgetRec("short", "fallback", AUDIO_KBPS, target, eff, 0)
                  ELSE IF eff = 0
                  THEN BudgetRec("raise", "fallback", AUDIO_KBPS, target, eff, 0)
                  ELSE BudgetRec("ok", "fallback", AUDIO_KBPS, target, eff,
                                 VideoKbps(vbits, eff))
    ELSE LET t_mb   == IF s.target_mb /= 0 THEN s.target_mb ELSE FALLBACK_MB
             target == TargetBitsMb(t_mb)
             vbits  == target - AudioBits(AUDIO_KBPS, eff)
         IN  IF ZeroDuration(eff)
             THEN BudgetRec("zero", "tiered", AUDIO_KBPS, target, eff, 0)
             ELSE IF TooShort(vbits)
             THEN BudgetRec("short", "tiered", AUDIO_KBPS, target, eff, 0)
             ELSE BudgetRec("ok", "tiered", AUDIO_KBPS, target, eff,
                            VideoKbps(vbits, eff))

(***************************************************************************)
(* run(): HUD crop boxes and the mobile (portrait) overlay layout.         *)
(* A box is <<w, h, x, y>>; a scale factor is a pair <<num, den>>.         *)
(***************************************************************************)
main_width == 1150
main_height == 1920
HB_UP_1440 == 8
HB_OVERLAY_UP_1440 == 14
STATS_MARGIN_ABOVE_1440 == 8

hb_1440 == <<370, 65, 60, Max(0, 1325 - HB_UP_1440)>>
loot_1440 == <<440, 133, 2160, 1288>>
stats_1440 == <<280, 31, 2264, 270>>
team_1440 == <<160, 190, 74, 26>>

\* tuple(int(round(v * s)) for v in box)
scale_box(box, s) == [i \in 1..4 |-> RoundHalfEven(box[i] * s[1], s[2])]

base_w == 2560
base_h == 1440

\* map_hud_box_to_input(box, in_w, in_h): v = in_h / base_h is carried as the
\* fraction in_h / base_h, pad_x as a fraction over 2 * base_h
map_hud_box_to_input(box, in_w, in_h) ==
    LET w   == box[1]
        h   == box[2]
        x   == IF box[3] + w > base_w THEN Max(0, base_w - w) ELSE box[3]
        y   == IF box[4] + h > base_h THEN Max(0, base_h - h) ELSE box[4]
        pad == Max(0, in_w * base_h - base_w * in_h)
        w2  == RoundHalfEven(w * in_h, base_h)
        h2  == RoundHalfEven(h * in_h, base_h)
        x2  == RoundHalfEven(pad + 2 * x * in_h, 2 * base_h)
        y2  == RoundHalfEven(y * in_h, base_h)
    IN  <<w2, h2, Max(0, Min(in_w - w2, x2)), Max(0, Min(in_h - h2, y2))>>

\* the crop boxes hb, loot, stats, team of the resolution
HudBoxes(resolution) ==
    IF resolution = "1920x1080"
    THEN [ hb    |-> scale_box(hb_1440, <<3, 4>>),
           loot  |-> scale_box(loot_1440, <<3, 4>>),
           stats |-> scale_box(stats_1440, <<3, 4>>),
           team  |-> scale_box(team_1440, <<3, 4>>) ]
    ELSE IF resolution = "2560x1440"
    THEN [ hb |-> hb_1440, loot |-> loot_1440, stats |-> stats_1440, team |-> team_1440 ]
    ELSE IF resolution = "3440x1440"
    THEN [ hb    |-> <<350, 130, 720, 1260>>,
           loot  |-> <<664, 135, 2890, 1205>>,
           stats |-> <<360, 31, 3030, 440>>,
           team  |-> <<260, 290, 110, 26>> ]
    ELSE IF resolution = "3840x2160"
    THEN [ hb    |-> scale_box(hb_1440, <<3, 2>>),
           loot  |-> scale_box(loot_1440, <<3, 2>>),
           stats |-> scale_box(stats_1440, <<3, 2>>),
           team  |-> scale_box(team_1440, <<3, 2>>) ]
    ELSE [ hb |-> hb_1440, loot |-> loot_1440, stats |-> stats_1440, team |-> team_1440 ]

\* s = 0.75 if 1920x1080 else (1.5 if 3840x2160 else 1.0)
OverlayScale(resolution) ==
    IF resolution = "1920x1080" THEN <<3, 4>>
    ELSE IF resolution = "3840x2160" THEN <<3, 2>>
    ELSE <<1, 1>>

\* the *_scaled_width and *_scaled_height values, as <<w, h>> per element
ScaledSizes(resolution) ==
    LET s == OverlayScale(resolution)
        b == HudBoxes(resolution)
    IN  IF resolution = "3440x1440"
        THEN [ healthbar |-> <<520, 125>>,
               loot      |-> <<715, 140>>,
               stats     |-> <<500, 50>>,
               team      |-> <<211, 280>> ]
        ELSE [ healthbar |-> << RoundHalfEven(370 * 85 * 2 * s[1], 100 * s[2]),
                                RoundHalfEven(65 * 85 * 2 * s[1], 100 * s[2]) >>,
               loot      |-> << RoundHalfEven(440 * 85 * 13 * 12 * s[1], 10000 * s[2]),
                                RoundHalfEven(133 * 85 * 13 * 12 * s[1], 10000 * s[2]) >>,
               stats     |-> << RoundHalfEven(b.stats[1] * 18 * s[1], 10 * s[2]),
                                RoundHalfEven(b.stats[2] * 18 * s[1], 10 * s[2]) >>,
               team      |-> << RoundHalfEven(b.team[1] * 132 * s[1], 100 * s[2]),
                                RoundHalfEven(b.team[2] * 132 * s[1], 100 * s[2]) >> ]

\* the *_overlay_x and *_overlay_y values of the mobile branch, as <<x, y>>
OverlayPositions(resolution) ==
    LET s               == OverlayScale(resolution)
        z               == ScaledSizes(resolution)
        hb_overlay_up   == RoundHalfEven(HB_OVERLAY_UP_1440 * s[1], s[2])
        hb_overlay_y    == Max(0, main_height - z.healthbar[2] - hb_overlay_up)
        loot_overlay_x  == main_width - z.loot[1] - 85
        loot_overlay_y  == main_height - z.loot[2] + 70
        stats_margin    == RoundHalfEven(STATS_MARGIN_ABOVE_1440 * s[1], s[2])
        stats_overlay_x == RoundHalfEven(main_width - z.stats[1], 2)
        base_y          == Min(hb_overlay_y, loot_overlay_y)
        stats_overlay_y == Max(0, base_y - z.stats[2] - stats_margin)
    IN  [ healthbar |-> <<0, hb_overlay_y>>,
          loot      |-> <<loot_overlay_x, loot_overlay_y>>,
          stats     |-> <<stats_overlay_x, stats_overlay_y>>,
          team      |-> <<0, 0>> ]

\* one element of a filter graph: crop=w:h:x:y, scale=w:h, overlay=x:y
Overlay(crop, scale, overlay) == [crop |-> crop, scale |-> scale, overlay |-> overlay]

\* the elements a filter graph places, without or with the teammates element
Placed(lootbar, healthbar, stats, team, show_teammates) ==
    IF show_teammates
    THEN [lootbar |-> lootbar, healthbar |-> healthbar, stats |-> stats, team |-> team]
    ELSE [lootbar |-> lootbar, healthbar |-> healthbar, stats |-> stats]

\* video_filter_cmd of the mobile branch: the literal graphs of 3440x1440
\* (healthbar at 0:H-h-0) and 1920x1080, the computed graph otherwise
MobileFilter(resolution, show_teammates) ==
    IF resolution = "3440x1440"
    THEN Placed(Overlay(<<664, 135, 2890, 1205>>, <<715, 140>>, <<463, 1790>>),
                Overlay(<<350, 130, 720, 1260>>, <<520, 125>>, <<0, main_height - 125 - 0>>),
                Overlay(<<360, 31, 3030, 440>>, <<500, 50>>, <<323, 1745>>),
                Overlay(<<260, 290, 110, 26>>, <<211, 280>>, <<0, 0>>),
                show_teammates)
    ELSE IF resolution = "1920x1080"
    THEN Placed(Overlay(<<330, 120, 1814, 1082>>, <<738, 263>>, <<445, 1800>>),
                Overlay(<<278, 49, 45, 988>>, <<690, 121>>, <<-100, 1795>>),
                Overlay(<<210, 23, 1698, 202>>, <<497, 54>>, <<347, 1745>>),
                Overlay(<<120, 142, 56, 20>>, <<273, 324>>, <<0, 0>>),
                show_teammates)
    ELSE LET b == HudBoxes(resolution)
             z == ScaledSizes(resolution)
             o == OverlayPositions(resolution)
         IN  Placed(Overlay(b.loot,
                            <<RoundHalfEven(z.loot[1] * 12, 10), RoundHalfEven(z.loot[2] * 12, 10)>>,
                            o.loot),
                    Overlay(b.hb,
                            <<RoundHalfEven(z.healthbar[1] * 11, 10),
                              RoundHalfEven(z.healthbar[2] * 11, 10)>>,
                            <<-100, o.healthbar[2]>>),
                    Overlay(b.stats, z.stats, o.stats),
                    Overlay(b.team, z.team, o.team),
                    show_teammates)

\* the overlays of the job's filter graph; the landscape branch places none
OverlayLayout(s) ==
    IF s.is_mobile_format
    THEN MobileFilter(s.original_resolution, s.show_teammates_overlay)
    ELSE <<>>

(***************************************************************************)
(* run(): the audio tempo chain and the encoder options                    *)
(***************************************************************************)
\* the loops that split the speed s = <<num, den>> into factors of 2.0 (s >= 1)
\* or 0.5 (s < 1) and a remainder; halving and doubling a float are exact
RECURSIVE SplitFast(_)
SplitFast(s) ==
    IF s[1] > 2 * s[2]
    THEN <<(<<2, 1>>)>> \o SplitFast(<<s[1], 2 * s[2]>>)
    ELSE <<s>>

RECURSIVE SplitSlow(_)
SplitSlow(s) ==
    IF 2 * s[1] < s[2]
    THEN <<(<<1, 2>>)>> \o SplitSlow(<<2 * s[1], s[2]>>)
    ELSE <<s>>

\* abs(f - 1.0) > 1e-3
FarFromOne(f) ==
    (IF f[1] >= f[2] THEN f[1] - f[2] ELSE f[2] - f[1]) * 1000 > f[2]

\* min(2.0, max(0.5, round(f, 3))), in thousandths
RoundedTempo(f) == Min(2000, Max(500, RoundHalfEven(f[1] * 1000, f[2])))

\* [min(2.0, max(0.5, round(f, 3))) for f in chain if abs(f-1.0) > 1e-3]
RECURSIVE KeptTempos(_)
KeptTempos(chain) ==
    IF chain = <<>> THEN <<>>
    ELSE IF FarFromOne(Head(chain))
    THEN <<RoundedTempo(Head(chain))>> \o KeptTempos(Tail(chain))
    ELSE KeptTempos(Tail(chain))

\* the atempo factors of audio_filter_cmd, in thousandths; speed 1.0 builds none
AtempoChain(sf) ==
    IF sf[1] = sf[2] THEN <<>>
    ELSE IF sf[1] >= sf[2] THEN KeptTempos(SplitFast(sf))
    ELSE KeptTempos(SplitSlow(sf))

\* strict_size = (effective_duration <= 20.0)
STRICT_SIZE == 20000

\* the video encoder options of a command: the -c:v codec, the rate control
\* (-crf, or -rc cbr / -rc vbr), whether -b:v and -maxrate are given, and the
\* -multipass value (0: not given)
Vcodec(codec, rc, bitrate_flags, multipass) ==
    [codec |-> codec, rc |-> rc, bitrate_flags |-> bitrate_flags, multipass |-> multipass]

\* vcodec of core_cmd
CoreVcodec(force_cpu, effective_duration) ==
    IF force_cpu = "1"
    THEN Vcodec("libx264", "crf", FALSE, 0)
    ELSE IF effective_duration <= STRICT_SIZE
    THEN Vcodec("h264_nvenc", "cbr", TRUE, 0)
    ELSE Vcodec("h264_nvenc", "vbr", TRUE, 2)

\* the encoder options written into intro_cmd
IntroVcodec == Vcodec("h264_nvenc", "cbr", TRUE, 0)

\* concat_cmd copies the streams: "-c copy"
ConcatVcodec == Vcodec("copy", "none", FALSE, 0)

(***************************************************************************)
(* run(): progress of the CORE stage                                       *)
(***************************************************************************)
\* One field of a "time=" value split at ':' : a number, or text int() and
\* float() reject (num = FALSE).
Num(n) == [num |-> TRUE, val |-> n]
Bad == [num |-> FALSE, val |-> 0]

\* A line of encoder output: whether time_regex matches it, the matched value
\* up to its first '.' split at ':' (parts), and the digits after that '.'.
NoTimeLine == [match |-> FALSE, parts |-> <<>>, frac |-> 0]
TimeLine(parts, frac) == [match |-> TRUE, parts |-> parts, frac |-> frac]

EncoderLines ==
    { NoTimeLine,
      TimeLine(<<Num(0), Num(0), Num(5)>>, 50),      \* time=00:00:05.50
      TimeLine(<<Num(0), Num(0), Num(10)>>, 0),      \* time=00:00:10.00
      TimeLine(<<Bad>>, 0) }                         \* time=N/A

\* match.group(1).split('.')[0]: the digits after the first '.' are dropped
CurrentTimeStr(line) == line.parts

\* _parse_time_to_seconds: the MM:SS and SS forms sit in the except branch,
\* which is entered only with three parts
ParseTimeToSeconds(parts) ==
    IF Len(parts) = 3
    THEN IF \A i \in 1..3 : parts[i].num
         THEN (parts[1].val * 3600) + (parts[2].val * 60) + parts[3].val
         ELSE IF Len(parts) = 2
              THEN IF parts[1].num /\ parts[2].num
                   THEN (parts[1].val * 60) + parts[2].val
                   ELSE 0
              ELSE IF Len(parts) = 1
                   THEN IF parts[1].num THEN parts[1].val ELSE 0
                   ELSE 0
    ELSE 0

\* core_progress_weight, in tenths: 0.8 if self.intro_still_sec > 0 else 1.0
CoreProgressWeight(s) == IF s.intro_still_sec > 0 THEN 8 ELSE 10

\* int(max(0, min(100 * w, (current_seconds / duration_corrected) * 100 * w)))
\* with current_seconds in seconds, duration_corrected in ms, w in tenths
CoreProgress(current_seconds, duration_corrected, w) ==
    Max(0, Min(10 * w, (current_seconds * 10000 * w) \div duration_corrected))

\* the emissions of one pass of the "for line in proc1.stdout" loop
CoreLineEmits(line, s, w) ==
    IF line.match /\ s.duration_corrected > 0
    THEN <<CoreProgress(ParseTimeToSeconds(CurrentTimeStr(line)), s.duration_corrected, w)>>
    ELSE <<>>

\* INTRO and CONCAT emit a fixed marker for every line read
IntroLineEmits == <<95>>
ConcatLineEmits == <<99>>
SuccessEmits == <<100>>

(***************************************************************************)
(* run(): stage control, results and cleanup                               *)
(***************************************************************************)
\* mutant of ProcFailed: only a negative return code (a signal) counts
ProcFailedOnSignalOnly(returncode) == returncode < 0

\* "if procN.returncode != 0"
ProcFailed(returncode) == returncode /= 0

\* mutant of SkipIntro: "and" for "or"
SkipIntroAnd(s) == s.disable_fades /\ (s.intro_still_sec * 10 <= 1)

\* the skip condition: disable_fades or intro_still_sec <= 0.0001 (0.1 ms)
SkipIntro(s) == s.disable_fades \/ (s.intro_still_sec * 10 <= 1)

\* mutant of EmitFinished: a failure is logged but never emitted
EmitFinishedSuccessOnly(f, ok, text) ==
    IF ok THEN Append(f, [success |-> ok, text |-> text]) ELSE f

\* self.finished_signal.emit(ok, text)
EmitFinished(f, ok, text) == Append(f, [success |-> ok, text |-> text])

\* the finally block: "for p in [core_path, intro_path, concat_path]: remove"
FinallyCleanup(fs, cp, ip, xp) == fs \ {p \in {cp, ip, xp} : p /= None}

CorePath == "core-pid-ts.mp4"
IntroPath == "intro-pid-ts.mp4"
ConcatListPath == "concat-pid-ts.txt"
OutputPath == "Fortnite-Video-1.mp4"
TempPaths == {CorePath, IntroPath, ConcatListPath}

MsgZero == "Selected video duration is zero."
MsgShort == "Video duration is too short for the target file size."
MsgCore == "Core encode failed (STEP 1/3)."
MsgIntro == "Intro encode failed (STEP 2/3)."
MsgConcat == "Concat failed (STEP 3/3)."
MsgMove == "Failed to finalize output file."
MsgException == "An unexpected error occurred"

NewProc(stage, vcodec) ==
    [stage |-> stage, running |-> TRUE, returncode |-> 0, lines |-> 0, vcodec |-> vcodec]
Exited(ps, rc) == [ps EXCEPT ![Len(ps)].running = FALSE, ![Len(ps)].returncode = rc]
ReadLine(ps) == [ps EXCEPT ![Len(ps)].lines = @ + 1]

(***************************************************************************)
(* The state machine                                                       *)
(***************************************************************************)
\* a ProcessThread constructed from arguments in specs, the environment
\* variable in envs, run() not yet entered
Constructed(specs, envs) ==
    /\ args \in specs
    /\ self = Construct(args)
    /\ pc = "ready"
    /\ plan = [outcome |-> "none"]
    /\ core_path = None
    /\ intro_path = None
    /\ concat_path = None
    /\ concat_list_path = None
    /\ files = {}
    /\ procs = <<>>
    /\ progress = <<>>
    /\ finished = <<>>
    /\ environ \in envs
    /\ now = 0
    /\ jobs = <<>>

Init == Constructed(JobSpecs, {None})

\* run() from its entry to the start of the CORE process, or to its return
\* when planning ends the job.  getsize_ok, src_bytes and probed are what the
\* file system and the prober answer (tier 4); popen_raises is whether starting
\* the encoder binary raises OSError.
Run ==
    /\ pc = "ready"
    /\ \E getsize_ok \in BOOLEAN, src_bytes \in SrcSizes, probed \in ProbedKbps,
          popen_raises \in BOOLEAN :
         LET w0  == TrimWindow(self)
             w   == SpeedCorrected(w0, self.speed_factor)
             dc  == Max(0, w.output_clip_duration)
             s1  == [self EXCEPT !.duration_corrected = dc]
             eff == dc + IntroLenForSize(s1)
             b   == Budget(s1, eff, getsize_ok, src_bytes, probed)
         IN  /\ self' = s1
             /\ plan' = w @@ b @@ [ effective_duration   |-> eff,
                                    core_progress_weight |-> CoreProgressWeight(s1),
                                    before_speed         |-> w0,
                                    layout               |-> OverlayLayout(s1),
                                    audio_chain          |-> AtempoChain(s1.speed_factor),
                                    vcodec               |-> CoreVcodec(environ, eff) ]
             /\ UNCHANGED <<args, intro_path, concat_path, concat_list_path,
                            environ, now, jobs>>
             /\ IF b.outcome = "zero"
                THEN /\ finished' = EmitFinished(finished, FALSE, MsgZero)
                     /\ files' = FinallyCleanup(files, core_path, intro_path, concat_path)
                     /\ pc' = "done"
                     /\ UNCHANGED <<core_path, procs, progress>>
                ELSE IF b.outcome = "short"
                THEN /\ finished' = EmitFinished(finished, FALSE, MsgShort)
                     /\ files' = FinallyCleanup(files, core_path, intro_path, concat_path)
                     /\ pc' = "done"
                     /\ UNCHANGED <<core_path, procs, progress>>
                ELSE IF b.outcome = "raise"
                THEN /\ finished' = EmitFinished(finished, FALSE, MsgException)
                     /\ files' = FinallyCleanup(files, core_path, intro_path, concat_path)
                     /\ pc' = "done"
                     /\ UNCHANGED <<core_path, procs, progress>>
                ELSE /\ progress' = progress \o <<0>>
                     /\ core_path' = CorePath
                     /\ IF ~popen_raises
                        THEN /\ procs' = Append(procs, NewProc(CORE, plan'.vcodec))
                             /\ pc' = "core"
                             /\ UNCHANGED <<files, finished>>
                        ELSE /\ finished' = EmitFinished(finished, FALSE, MsgException)
                             /\ files' = FinallyCleanup(files, CorePath, intro_path, concat_path)
                             /\ pc' = "done"
                             /\ UNCHANGED procs

\* one pass of "for line in proc1.stdout"
CoreLine ==
    /\ pc = "core"
    /\ procs[Len(procs)].lines < MaxLines
    /\ \E line \in EncoderLines :
         progress' = progress \o CoreLineEmits(line, self, plan.core_progress_weight)
    /\ procs' = ReadLine(procs)
    /\ UNCHANGED <<args, self, pc, plan, core_path, intro_path, concat_path,
                   concat_list_path, files, finished, environ, now, jobs>>

\* proc1 exits: run() from proc1.wait() to the start of the INTRO process, or
\* to its return.  wrote: whether the encoder left its output file; move_ok:
\* whether shutil.move succeeds.
CoreExit ==
    /\ pc = "core"
    /\ \E rc \in ExitCodes, wrote \in BOOLEAN, move_ok \in BOOLEAN :
         LET fs1 == IF wrote \/ rc = 0 THEN files \cup {core_path} ELSE files
             ps1 == Exited(procs, rc)
         IN  IF ProcFailed(rc)
             THEN /\ finished' = EmitFinished(finished, FALSE, MsgCore)
                  /\ files' = FinallyCleanup(fs1, core_path, intro_path, concat_path)
                  /\ procs' = ps1
                  /\ pc' = "done"
                  /\ UNCHANGED <<core_path, intro_path, progress>>
             ELSE IF SkipIntro(self)
             THEN IF move_ok
                  THEN /\ core_path' = None
                       /\ progress' = progress \o SuccessEmits
                       /\ finished' = EmitFinished(finished, TRUE, OutputPath)
                       /\ files' = FinallyCleanup((fs1 \ {core_path}) \cup {OutputPath},
                                                  None, intro_path, concat_path)
                       /\ procs' = ps1
                       /\ pc' = "done"
                       /\ UNCHANGED intro_path
                  ELSE /\ finished' = EmitFinished(finished, FALSE, MsgMove)
                       /\ files' = FinallyCleanup(fs1, core_path, intro_path, concat_path)
                       /\ procs' = ps1
                       /\ pc' = "done"
                       /\ UNCHANGED <<core_path, intro_path, progress>>
             ELSE /\ intro_path' = IntroPath
                  /\ procs' = Append(ps1, NewProc(INTRO, IntroVcodec))
                  /\ files' = fs1
                  /\ pc' = "intro"
                  /\ UNCHANGED <<core_path, progress, finished>>
    /\ UNCHANGED <<args, self, plan, concat_path, concat_list_path, environ, now, jobs>>

\* one pass of "for line in proc2.stdout"
IntroLine ==
    /\ pc = "intro"
    /\ procs[Len(procs)].lines < MaxLines
    /\ progress' = progress \o IntroLineEmits
    /\ procs' = ReadLine(procs)
    /\ UNCHANGED <<args, self, pc, plan, core_path, intro_path, concat_path,
                   concat_list_path, files, finished, environ, now, jobs>>

\* proc2 exits: run() from proc2.wait() to the start of the CONCAT process
\* (the concat list is written on the way), or to its return
IntroExit ==
    /\ pc = "intro"
    /\ \E rc \in ExitCodes, wrote \in BOOLEAN :
         LET fs1 == IF wrote \/ rc = 0 THEN files \cup {intro_path} ELSE files
             ps1 == Exited(procs, rc)
         IN  IF ProcFailed(rc)
             THEN /\ finished' = EmitFinished(finished, FALSE, MsgIntro)
                  /\ files' = FinallyCleanup(fs1, core_path, intro_path, concat_path)
                  /\ procs' = ps1
                  /\ pc' = "done"
                  /\ UNCHANGED concat_list_path
             ELSE /\ concat_list_path' = ConcatListPath
                  /\ files' = fs1 \cup {ConcatListPath}
                  /\ procs' = Append(ps1, NewProc(CONCAT, ConcatVcodec))
                  /\ pc' = "concat"
                  /\ UNCHANGED finished
    /\ UNCHANGED <<args, self, plan, core_path, intro_path, concat_path, progress,
                   environ, now, jobs>>

\* one pass of "for line in proc3.stdout"
ConcatLine ==
    /\ pc = "concat"
    /\ procs[Len(procs)].lines < MaxLines
    /\ progress' = progress \o ConcatLineEmits
    /\ procs' = ReadLine(procs)
    /\ UNCHANGED <<args, self, pc, plan, core_path, intro_path, concat_path,
                   concat_list_path, files, finished, environ, now, jobs>>

\* proc3 exits: run() from proc3.wait() to its return
ConcatExit ==
    /\ pc = "concat"
    /\ \E rc \in ExitCodes, wrote \in BOOLEAN :
         LET fs1 == IF wrote \/ rc = 0 THEN files \cup {OutputPath} ELSE files
         IN  /\ procs' = Exited(procs, rc)
             /\ files' = FinallyCleanup(fs1, core_path, intro_path, concat_path)
             /\ pc' = "done"
             /\ IF ProcFailed(rc)
                THEN /\ finished' = EmitFinished(finished, FALSE, MsgConcat)
                     /\ UNCHANGED progress
                ELSE /\ progress' = progress \o SuccessEmits
                     /\ finished' = EmitFinished(finished, TRUE, OutputPath)
    /\ UNCHANGED <<args, self, plan, core_path, intro_path, concat_path,
                   concat_list_path, environ, now, jobs>>

Next ==
    \/ Run
    \/ CoreLine
    \/ CoreExit
    \/ IntroLine
    \/ IntroExit
    \/ ConcatLine
    \/ ConcatExit

Spec == Init /\ [][Next]_vars

\* planning only, over the wider inputs
PlanJobSpecs ==
    JobSpecsOver(PlanStartTimes, PlanEndTimes, PlanTotalDurations, PlanSpeedFactors,
                 QualityLevels, IntroStillSecs, Resolutions, MobileFormats,
                 TeammateOverlays)

InitPlan == Constructed(PlanJobSpecs, {None})

SpecPlan == InitPlan /\ [][Run]_vars

\* planning only, over every resolution, format and teammates setting
LayoutJobSpecs ==
    JobSpecsOver({10000}, {40000}, {120000}, {<<1, 1>>}, QualityLevels,
                 IntroStillSecs, LayoutResolutions, BOOLEAN, BOOLEAN)

InitLayout == Constructed(LayoutJobSpecs, {None})

SpecLayout == InitLayout /\ [][Run]_vars

\* the whole pipeline with and without VIDEO_FORCE_CPU
EncJobSpecs ==
    JobSpecsOver({10000}, EncEndTimes, {120000}, {<<1, 1>>}, EncQualityLevels,
                 IntroStillSecs, Resolutions, MobileFormats, TeammateOverlays)

InitEnc == Constructed(EncJobSpecs, ForceCpu)

SpecEnc == InitEnc /\ [][Next]_vars

(***************************************************************************)
(* Several executions of run() side by side in one process: the names each *)
(* one picks for its temporary files and its output file.  jobs[j] holds   *)
(* execution j's position and local path variables; files holds the names  *)
(* present in the output directory.                                        *)
(***************************************************************************)
\* f"{kind}-{os.getpid()}-{int(time.time())}": one process, so one pid
TempName(kind, ts) == <<kind, "pid", ts>>

\* f"Fortnite-Video-{i}.mp4"
OutputName(i) == <<"Fortnite-Video", i>>

\* "i = 1; while True: if not os.path.exists(output_path): break; i += 1"
RECURSIVE ScanFrom(_, _)
ScanFrom(i, fs) == IF OutputName(i) \notin fs THEN i ELSE ScanFrom(i + 1, fs)

FirstFreeOutput(fs) == OutputName(ScanFrom(1, fs))

JobIds == 1..NumJobs

\* a path variable that holds no name yet
NoPath == <<>>

NewJob ==
    [ pc               |-> "ready",
      output_path      |-> NoPath,
      core_path        |-> NoPath,
      intro_path       |-> NoPath,
      concat_list_path |-> NoPath,
      overwrote        |-> FALSE ]

\* the other variables while only the path choices are followed
Idle ==
    /\ args = None
    /\ self = None
    /\ pc = "idle"
    /\ plan = [outcome |-> "none"]
    /\ core_path = None
    /\ intro_path = None
    /\ concat_path = None
    /\ concat_list_path = None
    /\ procs = <<>>
    /\ progress = <<>>
    /\ finished = <<>>
    /\ environ = None

InitJobs ==
    /\ Idle
    /\ now = 0
    /\ files \in SUBSET {OutputName(1)}
    /\ jobs = [j \in JobIds |-> NewJob]

\* the wall clock passes a whole second
Tick ==
    /\ now < MaxNow
    /\ now' = now + 1
    /\ UNCHANGED <<args, self, pc, plan, core_path, intro_path, concat_path,
                   concat_list_path, files, procs, progress, finished, environ, jobs>>

\* run() of execution j up to the start of its CORE process: the output name
\* is the first one that does not exist now, the core name is stamped now
JobRun(j) ==
    /\ jobs[j].pc = "ready"
    /\ jobs' = [jobs EXCEPT ![j].output_path = FirstFreeOutput(files),
                            ![j].core_path = TempName("core", now),
                            ![j].pc = "core"]
    /\ UNCHANGED <<args, self, pc, plan, core_path, intro_path, concat_path,
                   concat_list_path, files, procs, progress, finished, environ, now>>

\* proc1 of execution j exits.  failed: its return code is not 0; skip: the
\* skip condition holds, and shutil.move puts the core file at output_path
JobCoreExit(j) ==
    /\ jobs[j].pc = "core"
    /\ \E failed \in BOOLEAN, skip \in BOOLEAN :
         IF failed
         THEN /\ jobs' = [jobs EXCEPT ![j].pc = "done"]
              /\ UNCHANGED files
         ELSE IF skip
         THEN /\ jobs' = [jobs EXCEPT ![j].overwrote = (jobs[j].output_path \in files),
                                      ![j].pc = "done"]
              /\ files' = files \cup {jobs[j].output_path}
         ELSE /\ jobs' = [jobs EXCEPT ![j].intro_path = TempName("intro", now),
                                      ![j].pc = "intro"]
              /\ UNCHANGED files
    /\ UNCHANGED <<args, self, pc, plan, core_path, intro_path, concat_path,
                   concat_list_path, procs, progress, finished, environ, now>>

\* proc2 of execution j exits; the concat list is named and written
JobIntroExit(j) ==
    /\ jobs[j].pc = "intro"
    /\ \E failed \in BOOLEAN :
         IF failed
         THEN jobs' = [jobs EXCEPT ![j].pc = "done"]
         ELSE jobs' = [jobs EXCEPT ![j].concat_list_path = TempName("concat", now),
                                   ![j].pc = "concat"]
    /\ UNCHANGED <<args, self, pc, plan, core_path, intro_path, concat_path,
                   concat_list_path, files, procs, progress, finished, environ, now>>

\* proc3 of execution j ("ffmpeg -y ... output_path") exits
JobConcatExit(j) ==
    /\ jobs[j].pc = "concat"
    /\ \E failed \in BOOLEAN :
         IF failed
         THEN /\ jobs' = [jobs EXCEPT ![j].pc = "done"]
              /\ UNCHANGED files
         ELSE /\ jobs' = [jobs EXCEPT ![j].overwrote = (jobs[j].output_path \in files),
                                      ![j].pc = "done"]
              /\ files' = files \cup {jobs[j].output_path}
    /\ UNCHANGED <<args, self, pc, plan, core_path, intro_path, concat_path,
                   concat_list_path, procs, progress, finished, environ, now>>

NextJobs ==
    \/ Tick
    \/ \E j \in JobIds : JobRun(j)
    \/ \E j \in JobIds : JobCoreExit(j)
    \/ \E j \in JobIds : JobIntroExit(j)
    \/ \E j \in JobIds : JobConcatExit(j)

SpecJobs == InitJobs /\ [][NextJobs]_vars

(***************************************************************************)
(* map_hud_box_to_input applied to a base box and an input resolution;     *)
(* args holds the call's arguments and plan its result.                    *)
(***************************************************************************)
MapCalls ==
    [ box  : {hb_1440, loot_1440, stats_1440, team_1440},
      in_w : InputWidths,
      in_h : InputHeights ]

InitMap ==
    /\ args \in MapCalls
    /\ self = None
    /\ pc = "idle"
    /\ plan = [outcome |-> "none"]
    /\ core_path = None
    /\ intro_path = None
    /\ concat_path = None
    /\ concat_list_path = None
    /\ files = {}
    /\ procs = <<>>
    /\ progress = <<>>
    /\ finished = <<>>
    /\ environ = None
    /\ now = 0
    /\ jobs = <<>>

\* the call returns
MapHudBox ==
    /\ pc = "idle"
    /\ pc' = "mapped"
    /\ plan' = [outcome |-> "mapped",
                mapped  |-> map_hud_box_to_input(args.box, args.in_w, args.in_h)]
    /\ UNCHANGED <<args, self, core_path, intro_path, concat_path, concat_list_path,
                   files, procs, progress, finished, environ, now, jobs>>

SpecMap == InitMap /\ [][MapHudBox]_vars

(***************************************************************************)
(* Properties                                                              *)
(***************************************************************************)
Returned == pc = "done"
Planned == pc /= "ready"
Failed == Len(finished) >= 1 /\ \E i \in 1..Len(finished) : ~finished[i].success
Succeeded == Len(finished) >= 1 /\ \A i \in 1..Len(finished) : finished[i].success
StageOrder == <<CORE, INTRO, CONCAT>>
ExitedWith0(i) == i <= Len(procs) /\ ~procs[i].running /\ procs[i].returncode = 0
ExitedNonZero(i) == i <= Len(procs) /\ ~procs[i].running /\ procs[i].returncode /= 0
FailureTexts == {MsgZero, MsgShort, MsgCore, MsgIntro, MsgConcat, MsgMove, MsgException}

\* C1: once run() has returned, no temporary artifact of the job (core file,
\* intro file, concat list file) exists any more, on every exit path.
C1_TempFilesRemoved == Returned => (files \cap TempPaths = {})

\* C2: the stages are started in the order CORE, INTRO, CONCAT, each only
\* after the previous stage's process has exited with code 0; after a stage
\* exits non-zero no later stage is started and the job's result is a failure.
C2_StagesSequential ==
    /\ Len(procs) <= 3
    /\ \A i \in 1..Len(procs) : procs[i].stage = StageOrder[i]
    /\ \A i \in 1..Len(procs) : i < Len(procs) => ExitedWith0(i)
    /\ \A i \in 1..Len(procs) :
          ExitedNonZero(i) => /\ i = Len(procs)
                              /\ Returned
                              /\ Len(finished) = 1
                              /\ ~finished[1].success

\* C2 witness: CORE exited 0, INTRO was started after it and exited non-zero,
\* CONCAT was never started and the job has returned.
C2_Witness == Returned /\ Len(procs) = 2 /\ ExitedWith0(1) /\ ExitedNonZero(2)

\* The caller asked for a still intro and left the fades on.
IntroRequested == (~args.disable_fades) /\ args.intro_still_sec > 0

\* The intro that __init__ keeps: requested, from the midpoint, fades on.
IntroKept == IntroRequested /\ args.intro_from_midpoint

\* The outcome of delivering the core artifact alone.
CoreOnlySuccess ==
    /\ Len(finished) = 1
    /\ finished[1] = [success |-> TRUE, text |-> OutputPath]
    /\ OutputPath \in files
    /\ CorePath \notin files

CoreOnlyMoveFailed ==
    /\ Len(finished) = 1
    /\ finished[1] = [success |-> FALSE, text |-> MsgMove]
    /\ OutputPath \notin files

\* C3 as stated: after CORE succeeds, INTRO and CONCAT run if and only if the
\* fades are enabled and a positive still-intro duration was requested;
\* otherwise the core artifact is moved to the output path, the job ends in
\* success and neither INTRO nor CONCAT is started.
C3_Original ==
    ExitedWith0(1) =>
        IF IntroRequested
        THEN /\ Len(procs) >= 2
             /\ ExitedWith0(2) => Len(procs) = 3
        ELSE /\ Len(procs) = 1
             /\ Returned
             /\ CoreOnlySuccess

\* C3 as amended: after CORE succeeds, INTRO is started if and only if the
\* fades are enabled, intro_from_midpoint is set and the requested still-intro
\* duration is positive, and CONCAT is started if and only if INTRO then exits
\* with 0; in every other case neither is ever started, the move of the core
\* artifact to the output path is attempted, and the job ends in success if
\* the move succeeds and in the finalize failure if it does not.
C3_Amended ==
    ExitedWith0(1) =>
        IF IntroKept
        THEN /\ Len(procs) >= 2
             /\ Len(procs) = 3 <=> ExitedWith0(2)
        ELSE /\ Len(procs) = 1
             /\ Returned
             /\ CoreOnlySuccess \/ CoreOnlyMoveFailed

\* C3 witness: a still intro was requested with the fades on but not from the
\* midpoint; CORE succeeded and the job delivered the core alone.
C3_Witness ==
    /\ ExitedWith0(1)
    /\ IntroRequested
    /\ ~args.intro_from_midpoint
    /\ Returned
    /\ CoreOnlySuccess

\* C4: the progress values emitted during one job are non-decreasing and each
\* lies in [0,100], whatever timestamp lines the encoder prints.
C4_ProgressMonotone ==
    \A i \in 1..Len(progress) :
        /\ 0 <= progress[i]
        /\ progress[i] <= 100
        /\ i > 1 => progress[i - 1] <= progress[i]

\* C5: a job that ends with a failure result has emitted no progress of 100.
C5_HundredOnlyOnSuccess ==
    (Returned /\ Failed) => \A i \in 1..Len(progress) : progress[i] /= 100

\* C6: run() emits the final result exactly once when it returns and never
\* before: success with the output path only after every required stage and
\* the finalize step succeeded, otherwise a failure with a message.
C6_ExactlyOneResult ==
    /\ Len(finished) <= 1
    /\ Returned <=> Len(finished) = 1
    /\ Succeeded =>
          /\ finished[1].text = OutputPath
          /\ OutputPath \in files
          /\ Len(procs) = (IF IntroKept THEN 3 ELSE 1)
          /\ \A i \in 1..Len(procs) : ExitedWith0(i)
    /\ Failed => finished[1].text \in FailureTexts

\* C6 witness: an exception was raised (planning, or the start of the
\* encoder) and the job returned with the one failure result of the handler.
C6_Witness ==
    /\ Returned
    /\ finished = <<[success |-> FALSE, text |-> MsgException]>>

\* C7: whenever the derived output clip duration is zero or negative the job
\* ends with a failure result and no encoder process is started.
C7_ZeroDurationFails ==
    (Planned /\ plan.output_clip_duration <= 0) =>
        /\ Returned
        /\ Failed
        /\ procs = <<>>

\* The audio budget alone exceeds the target size.
AudioExceedsTarget == Planned /\ plan.audio_bits > plan.target_file_size_bits

InsufficientSizeBudget ==
    /\ Returned
    /\ finished = <<[success |-> FALSE, text |-> MsgShort]>>
    /\ procs = <<>>

\* C8 as stated: for every quality tier 0-4, if the audio budget alone exceeds
\* the target size the job ends with the InsufficientSizeBudget failure and no
\* encoder process is started.
C8_Original == AudioExceedsTarget => InsufficientSizeBudget

\* C8 as amended: for the tiers 0-3, and for tier 4 when the source size
\* cannot be read (the 52 MB fallback), an audio budget that alone exceeds the
\* target size ends the job with the InsufficientSizeBudget failure and no
\* encoder process is started; in tier 4 with the source size known the job
\* is not failed for it: the video bitrate is set to the 300 kbps floor.
C8_Amended ==
    AudioExceedsTarget =>
        IF plan.mode = "size_match"
        THEN /\ plan.outcome = "ok"
             /\ plan.video_bitrate_kbps = min_video_kbps
             /\ \A i \in 1..Len(finished) : finished[i].text /= MsgShort
        ELSE InsufficientSizeBudget

\* C8 witness: a tiered job whose audio budget exceeds the target size has
\* returned with the InsufficientSizeBudget failure.
C8_Witness ==
    /\ AudioExceedsTarget
    /\ plan.mode = "tiered"
    /\ self.quality_level = 3
    /\ InsufficientSizeBudget

\* C9: in every job that reaches the CORE encoder invocation the video
\* bitrate is at least the 300 kbps floor.
C9_BitrateFloor ==
    Len(procs) >= 1 => plan.video_bitrate_kbps >= min_video_kbps

\* C10: for 0 <= start < end <= totalDuration and either fade setting the
\* fade durations are non-negative, the seek start is >= 0 and the seek end
\* (seek start + seek length) is <= totalDuration.
C10_SeekInsideSource ==
    ( /\ Planned
      /\ 0 <= args.start_time
      /\ args.start_time < args.end_time
      /\ args.end_time <= args.original_total_duration ) =>
        /\ plan.vfade_in_d >= 0
        /\ plan.vfade_out_d >= 0
        /\ plan.in_ss >= 0
        /\ plan.in_ss + plan.in_t <= args.original_total_duration

(***************************************************************************)
(* Trim window, budget and tempo chain of the plan                         *)
(***************************************************************************)
FadesOn == Planned /\ ~self.disable_fades

\* the boundary conditions as the specification words them
StartAtBoundary == self.start_time < FADE_DUR
EndAtBoundary ==
    /\ self.original_total_duration > 0
    /\ self.end_time > self.original_total_duration - FADE_DUR

\* C11: with fades enabled, on each side where the boundary condition holds
\* (start < 1.5 s; end > total - 1.5 s with a known total) that side's fade
\* duration is 0 and the side is not padded: the seek start is the user start,
\* respectively the seek window ends at the user end.
C11_BoundarySideUnpadded ==
    FadesOn =>
        /\ StartAtBoundary =>
              /\ plan.before_speed.vfade_in_d = 0
              /\ plan.in_ss = self.start_time
        /\ EndAtBoundary =>
              /\ plan.before_speed.vfade_out_d = 0
              /\ plan.in_ss + plan.in_t = self.end_time

\* a tiered job, fades enabled, both sides padded, speed 1.0, no intro, whose
\* bitrate was computed
TieredPaddedJob ==
    /\ FadesOn
    /\ plan.outcome = "ok"
    /\ self.quality_level \in 0..3
    /\ plan.before_speed.vfade_in_d = FADE_DUR
    /\ plan.before_speed.vfade_out_d = FADE_DUR
    /\ self.speed_factor[1] = self.speed_factor[2]
    /\ self.intro_still_sec = 0

\* floor((mb*8*1024*1024 - 128*1024*d) / (1024*d)) for d in milliseconds
TierKbps(mb, d) == (mb * 8 * 1024 * 1000 - 128 * d) \div d

\* tier 2, start = 10 s, end = 40 s, total = 120 s
Scenario10To40 ==
    /\ self.quality_level = 2
    /\ self.start_time = 10000
    /\ self.end_time = 40000
    /\ self.original_total_duration = 120000

\* C12 as stated: such a job's output clip lasts end - start and its bitrate
\* is the tier budget over end - start; the scenario gives 30 s and 12160 kbps.
C12_Original ==
    TieredPaddedJob =>
        /\ plan.output_clip_duration = self.end_time - self.start_time
        /\ plan.video_bitrate_kbps =
               TierKbps(self.target_mb, self.end_time - self.start_time)
        /\ Scenario10To40 =>
              /\ plan.output_clip_duration = 30000
              /\ plan.video_bitrate_kbps = 12160

\* C12 amended: such a job's output clip lasts end - start plus the two
\* paddings of 1.5 s, its bitrate is the tier budget over that duration, and
\* the job is core-only; the scenario gives 33 s and 11042 kbps.
C12_Amended ==
    TieredPaddedJob =>
        /\ plan.output_clip_duration =
               (self.end_time - self.start_time) + 2 * FADE_DUR
        /\ plan.video_bitrate_kbps =
               TierKbps(self.target_mb, (self.end_time - self.start_time) + 2 * FADE_DUR)
        /\ SkipIntro(self)
        /\ Scenario10To40 =>
              /\ plan.output_clip_duration = 33000
              /\ plan.video_bitrate_kbps = 11042

\* C12 witness: the scenario job has been planned with both sides padded.
C12_Witness ==
    /\ TieredPaddedJob
    /\ Scenario10To40
    /\ plan.video_bitrate_kbps = 11042

\* the invariant of a trim window: nothing negative, the fade-out ends inside
\* the clip
WindowInvariant(w) ==
    /\ w.output_clip_duration >= 0
    /\ w.vfade_in_d >= 0
    /\ w.vfade_out_d >= 0
    /\ w.vfade_out_st >= 0
    /\ w.vfade_out_st + w.vfade_out_d <= w.output_clip_duration

\* C13: for every job with end > start and speed > 0 the trim window has
\* output clip duration, fade-in, fade-out and fade-out start >= 0 and
\* fade-out start + fade-out duration <= output clip duration, both before and
\* after the division by the speed factor.
C13_TrimWindowInvariant ==
    (Planned /\ self.end_time > self.start_time) =>
        /\ WindowInvariant(plan.before_speed)
        /\ WindowInvariant(plan)

\* the table part of C14: tiers 0, 1, 2, 3 target 15, 25, 45, 90 MB and tier 4
\* has no table target
TierTable ==
    /\ self.quality_level = 0 => self.target_mb = 15
    /\ self.quality_level = 1 => self.target_mb = 25
    /\ self.quality_level = 2 => self.target_mb = 45
    /\ self.quality_level = 3 => self.target_mb = 90
    /\ self.quality_level = 4 => self.target_mb = 0 /\ self.keep_highest_res
    /\ (Planned /\ self.quality_level \in 0..3) =>
           plan.target_file_size_bits = self.target_mb * 8 * 1024 * 1000

\* the target of the plan is the size of the source file
TargetIsSourceSize ==
    \E src_bytes \in SrcSizes : plan.target_file_size_bits = (src_bytes * 125) \div 16

\* C14 as stated: tiers 0, 1, 2, 3 target 15, 25, 45, 90 MB; tier 4 has no
\* fixed MB target, its target is the size of the source file.
C14_Original ==
    /\ TierTable
    /\ (Planned /\ self.quality_level = 4) => TargetIsSourceSize

\* C14 amended: tiers 0, 1, 2, 3 target 15, 25, 45, 90 MB; tier 4 has no table
\* target: its target is the size of the source file when that can be read
\* and the fixed 52 MB otherwise.
C14_Amended ==
    /\ TierTable
    /\ (Planned /\ self.quality_level = 4) =>
           IF plan.mode = "size_match"
           THEN TargetIsSourceSize
           ELSE /\ plan.mode = "fallback"
                /\ plan.target_file_size_bits = 52 * 8 * 1024 * 1000

\* C14 witness: a tier-4 job whose source size could not be read has been
\* planned against the fixed target.
C14_Witness ==
    /\ Planned
    /\ plan.outcome = "ok"
    /\ self.quality_level = 4
    /\ plan.mode = "fallback"

RECURSIVE GCD(_, _)
GCD(a, b) == IF b = 0 THEN a ELSE GCD(b, a % b)

Reduced(q) == <<q[1] \div GCD(q[1], q[2]), q[2] \div GCD(q[1], q[2])>>

\* the product of a chain of factors in thousandths, as a reduced fraction
RECURSIVE ChainProduct(_)
ChainProduct(chain) ==
    IF chain = <<>> THEN <<1, 1>>
    ELSE LET e == Reduced(<<Head(chain), 1000>>)
             p == ChainProduct(Tail(chain))
         IN  Reduced(<<e[1] * p[1], e[2] * p[2]>>)

\* |p - s| <= 1e-3 for fractions p and s
WithinThousandth(p, s) ==
    LET diff == p[1] * s[2] - s[1] * p[2]
    IN  (IF diff >= 0 THEN diff ELSE -diff) * 1000 <= p[2] * s[2]

\* C15: for every speed > 0 the emitted atempo chain has every element in
\* [0.5, 2.0] and a product (1 for the empty chain) within 1e-3 of the speed;
\* a speed of exactly 1.0 yields the empty chain.
C15_TempoChain ==
    (Planned /\ plan.outcome = "ok") =>
        /\ \A i \in 1..Len(plan.audio_chain) :
               plan.audio_chain[i] >= 500 /\ plan.audio_chain[i] <= 2000
        /\ WithinThousandth(ChainProduct(plan.audio_chain), Reduced(self.speed_factor))
        /\ self.speed_factor[1] = self.speed_factor[2] => plan.audio_chain = <<>>

(***************************************************************************)
(* File names of executions side by side                                   *)
(***************************************************************************)
\* the temporary paths execution j has chosen so far
TempPathsOf(j) ==
    {jobs[j].core_path, jobs[j].intro_path, jobs[j].concat_list_path} \ {NoPath}

\* C16: the output path a job chose names no existing file and the job never
\* overwrites an existing file when it writes its final output, also when two
\* jobs run side by side and pick their names before either writes.
C16_NeverOverwrites ==
    \A j \in JobIds : ~jobs[j].overwrote

\* C17: no two job executions use the same temporary path: two jobs side by
\* side in one process have pairwise distinct core, intro and concat-list
\* paths.
C17_TempPathsDistinct ==
    \A i \in JobIds : \A j \in JobIds :
        i /= j => TempPathsOf(i) \cap TempPathsOf(j) = {}

(***************************************************************************)
(* Overlay layout                                                           *)
(***************************************************************************)
RecognizedResolutions == {"1920x1080", "2560x1440", "3440x1440", "3840x2160"}

\* an element scaled to w x h and placed at (x, y) lies inside the canvas
InsideCanvas(e) ==
    /\ 0 <= e.overlay[1]
    /\ e.overlay[1] <= main_width - e.scale[1]
    /\ 0 <= e.overlay[2]
    /\ e.overlay[2] <= main_height - e.scale[2]

\* C18: in the mobile format, for every recognized resolution and both
\* teammates settings, every overlay (health, loot, stats, team) is placed
\* inside the 1150x1920 canvas: 0 <= x <= 1150 - w and 0 <= y <= 1920 - h.
C18_OverlaysInsideCanvas ==
    ( /\ Planned
      /\ plan.outcome = "ok"
      /\ self.is_mobile_format
      /\ self.original_resolution \in RecognizedResolutions ) =>
        \A e \in DOMAIN plan.layout : InsideCanvas(plan.layout[e])

(***************************************************************************)
(* Progress weight and encoder options                                      *)
(***************************************************************************)
\* C19: the CORE progress weight is 0.8 exactly when INTRO will follow and 1.0
\* otherwise; CORE progress is at most 80 when INTRO follows and at most 100
\* when it does not.
C19_WeightMatchesIntro ==
    (Planned /\ plan.outcome = "ok") =>
        /\ plan.core_progress_weight = 8 <=> ~SkipIntro(self)
        /\ plan.core_progress_weight = 10 <=> SkipIntro(self)

\* C20: with VIDEO_FORCE_CPU set every video-encoding stage (CORE and INTRO)
\* uses the software encoder with quality-factor rate control and no bitrate
\* flags; without it CORE uses CBR when the effective duration is <= 20 s and
\* two-pass VBR otherwise.
C20_EncoderSelection ==
    \A i \in 1..Len(procs) :
        /\ (environ = "1" /\ procs[i].stage \in {CORE, INTRO}) =>
              /\ procs[i].vcodec.codec = "libx264"
              /\ procs[i].vcodec.rc = "crf"
              /\ ~procs[i].vcodec.bitrate_flags
        /\ (environ /= "1" /\ procs[i].stage = CORE) =>
              IF plan.effective_duration <= 20000
              THEN procs[i].vcodec.rc = "cbr"
              ELSE procs[i].vcodec.rc = "vbr" /\ procs[i].vcodec.multipass = 2

(***************************************************************************)
(* HUD crop rectangles                                                      *)
(***************************************************************************)
\* the base rectangles of the four elements, by their name in the graph
BaseBoxes ==
    [healthbar |-> hb_1440, lootbar |-> loot_1440, stats |-> stats_1440, team |-> team_1440]

\* the factor C21 gives a resolution: 0.75, 1.5, or none
UniformFactor(resolution) ==
    IF resolution = "1920x1080" THEN <<3, 4>>
    ELSE IF resolution = "3840x2160" THEN <<3, 2>>
    ELSE <<1, 1>>

\* C21: in the mobile format the crop rectangles placed in the filter graph
\* are, for 1920x1080, the base 2560x1440 rectangles scaled by 0.75 and
\* rounded, for 3840x2160 the base rectangles scaled by 1.5, and for 2560x1440
\* and unrecognized resolutions the unscaled base rectangles.
C21_CropsAreScaledBase ==
    ( /\ Planned
      /\ plan.outcome = "ok"
      /\ self.is_mobile_format
      /\ self.original_resolution /= "3440x1440" ) =>
        \A e \in DOMAIN plan.layout :
            \A i \in 1..4 :
                plan.layout[e].crop[i] =
                    RoundHalfEven(BaseBoxes[e][i] * UniformFactor(self.original_resolution)[1],
                                  UniformFactor(self.original_resolution)[2])

\* C22: for every input resolution with positive dimensions and each of the
\* four base rectangles, the rectangle (w2, h2, x2, y2) the mapping function
\* returns has x2 >= 0, y2 >= 0, x2 + w2 <= in_w and y2 + h2 <= in_h.
C22_MappedBoxInsideInput ==
    pc = "mapped" =>
        /\ plan.mapped[3] >= 0
        /\ plan.mapped[4] >= 0
        /\ plan.mapped[3] + plan.mapped[1] <= args.in_w
        /\ plan.mapped[4] + plan.mapped[2] <= args.in_h

====
